---- MODULE Spec2Model ----
(***************************************************************************)
(* mandrel-watcher: the commit-detection-and-delivery pipeline.            *)
(*                                                                         *)
(*   GitWatcher   (src/unnamed/part_000, second half)  -> SpecWatcher      *)
(*   RetryQueue   (src/src/core/RetryQueue.ts)                             *)
(*   MandrelClient(src/unnamed/part_000, first half)                       *)
(*   Dispatcher   (src/src/utils/logger.ts, startCommand) -> SpecDispatch  *)
(*                                                                         *)
(* The runtime is a single-threaded event loop: an action is the code that *)
(* runs from one resumption (timer, I/O completion) to the next await.     *)
(***************************************************************************)
EXTENDS Integers, Sequences, FiniteSets, TLC

\* ------------------------------------------------------------------ bounds
MaxCommits == 6
MaxRuns == 2
MaxFires == 2
MaxPayloads == 1
MaxTimers == 2
MaxTicks == 1
MaxFaults == 2
MaxCrashes == 1
MaxCalls == 2
MaxFailures == 4
MaxExtra == 3
\* calls of a debounced function, and the time in steps of half the delay
MaxTriggers == 4
MaxClock == 6
\* retryConfig.maxRetries of the client under test (a constructor parameter)
MaxRetries == 2

\* -------------------------------------------------------- program constants
\* getNewCommits: { maxCount: 5 } when there is no baseline
InitialSnapshot == 5
\* RetryQueue.ts: MAX_QUEUE_SIZE, MAX_ITEM_AGE_MS = 7 * 24 * 60 * 60 * 1000
MAX_QUEUE_SIZE == 100
MAX_ITEM_AGE_MS == 604800000
\* GitWatcher: "options.debounceMs || 2000"
DebounceMs == 2000
\* MandrelClient.markFailure: "if (this.consecutiveFailures >= 3)"
FailureThreshold == 3

VARIABLES
    \* --- the repository (environment of one GitWatcher)
    head,           \* number of commits; commit k is the k-th created, its hash is k
    \* --- GitWatcher fields
    started,        \* start() has been called
    watching,       \* this.watcher # null
    lastCommitSha,  \* this.lastCommitSha; 0 is null
    timeoutId,      \* debounce: a timer is pending
    runs,           \* the handleGitChange invocations in progress
    \* --- history
    delivered,      \* the batches handed to onCommit, in call order
    deliveredFiles, \* the file lists of the commits of those batches
    preBaseline,    \* lastCommitSha as it was just before each of those calls
    startSha,       \* the baseline recorded by start()
    startHead,      \* the tip of the repository when start() ran
    seen,           \* newest commit a successful git.log of an extraction listed
    overlap,        \* two handleGitChange runs were in progress at once
    fires           \* number of debounce fires so far

VARIABLES
    \* --- RetryQueue
    queue,          \* this.queue: sequence of QueuedItem
    processing,     \* this.processing
    file,           \* pending.json: [state: "absent" | "ok" | "torn", items]
    \* --- MandrelClient
    connectionState,
    consecutiveFailures,
    \* --- Dispatcher (startCommand)
    handlers,       \* the handleCommits invocation of each payload
    timers,         \* processRetryQueue invocations in progress
    \* --- environment
    now,            \* Date.now()
    faults,         \* answers of the endpoint other than an acknowledgement, so far
    \* --- history
    acked,          \* payloads the endpoint acknowledged (2xx, success = true)
    evicted,        \* ids of the items cleanup() dropped
    lastPass,       \* the processQueue call that returned last
    crashes

dvars == <<queue, processing, file, connectionState, consecutiveFailures, handlers,
           timers, now, faults, acked, evicted, lastPass, crashes>>

\* --- one MandrelClient on its own, and one RetryQueue on its own
VARIABLES
    calls,          \* the calls of client operations: in progress, or returned
    enqueued,       \* number of enqueue calls made on the queue on its own
    lastOp          \* the operation made last on the queue on its own

\* --- calculateDelay on its own, and a debounced function on its own
VARIABLES
    retryConfig,    \* this.retryConfig
    delays,         \* the delays calculateDelay gave for the retries so far
    clock,          \* the time, for the debounce timers
    triggers,       \* the calls of the debounced function so far
    debounceTimer,  \* the closure's timeoutId: the timer set last, or none
    lastKey,        \* the closure's lastKey (debounceWithDedup)
    fired           \* the calls of the wrapped function so far

uvars == <<retryConfig, delays, clock, triggers, debounceTimer, lastKey, fired>>

cvars == <<calls>>

qvars == <<enqueued, lastOp>>

wvars == <<head, started, watching, lastCommitSha, timeoutId, runs,
           delivered, deliveredFiles, preBaseline, startSha, startHead, seen, overlap,
           fires>>

vars == <<wvars, dvars, cvars, qvars, uvars>>

RunIds == 1..MaxRuns
CallIds == 1..MaxCalls
PayloadIds == 1..MaxPayloads
TimerIds == 1..MaxTimers

\* ----------------------------------------------------------------- helpers
Max(a, b) == IF a >= b THEN a ELSE b

Range(s) == {s[k] : k \in DOMAIN s}

\* Array.prototype.reverse
Reverse(s) == [k \in 1..Len(s) |-> s[Len(s) + 1 - k]]

\* <<hi, hi-1, ..., lo>>: git lists commits newest first
Descending(hi, lo) == [k \in 1..Max(hi - lo + 1, 0) |-> hi + 1 - k]

\* ------------------------------------------------------------- GitWatcher
IdleRun == [pc |-> "idle", from |-> 0, logAll |-> <<>>, i |-> 0, commits |-> <<>>,
            files |-> <<>>]

\* git.log(logOptions): the range (from, HEAD] when there is a baseline,
\* the newest maxCount commits otherwise; newest first
GitLog(from, h) ==
    IF from # 0 THEN Descending(h, from + 1)
    ELSE Descending(h, Max(h - InitialSnapshot, 0) + 1)

\* the loop head of getNewCommits: "if (commit.hash === this.lastCommitSha) continue"
RECURSIVE SkipBaseline(_, _, _)
SkipBaseline(logAll, i, base) ==
    IF i <= Len(logAll) /\ logAll[i] = base
    THEN SkipBaseline(logAll, i + 1, base)
    ELSE i

\* "return commits.reverse()": chronological order
Unreversed(commits) == commits
ChronologicalOrder(commits) == Reverse(commits)

\* "this.lastCommitSha = commits[0].sha" (commits is the array reverse() returned)
NewBaseline(batch) == batch[1]

\* the commits whose parent diff cannot be computed: commit 1 is the root
\* commit (there is no "1^"), and commit 3 stands for a commit on which
\* git.diffSummary fails for another reason
Undiffable == {1, 3}

\* git.diffSummary([sha^, sha]): it throws, or gives the commit's files (the
\* model names the files of commit c by c)
DiffSummary(c) == [threw |-> c \in Undiffable, files |-> <<c>>]

\* getCommitFiles: "files" is still empty when the catch block is entered
NoFiles(c) == <<>>
GetCommitFiles(c) == IF DiffSummary(c).threw THEN <<>> ELSE DiffSummary(c).files

\* handleGitChange after "await this.getNewCommits()"; each commit of the
\* batch carries its file list
HandleBatch(r, batch, files) ==
    /\ runs' = [runs EXCEPT ![r] = IdleRun]
    /\ IF Len(batch) = 0
       THEN UNCHANGED <<lastCommitSha, delivered, deliveredFiles, preBaseline>>
       ELSE /\ lastCommitSha' = NewBaseline(batch)
            /\ delivered' = Append(delivered, batch)
            /\ deliveredFiles' = Append(deliveredFiles, files)
            /\ preBaseline' = Append(preBaseline, lastCommitSha)

\* the for loop of getNewCommits from index i on, up to its next await
LoopFrom(r, logAll, i, commits, files) ==
    LET j == SkipBaseline(logAll, i, lastCommitSha) IN
    IF j > Len(logAll)
    THEN HandleBatch(r, ChronologicalOrder(commits), ChronologicalOrder(files))
    ELSE /\ runs' = [runs EXCEPT ![r] = [pc |-> "files", from |-> runs[r].from,
                                         logAll |-> logAll, i |-> j,
                                         commits |-> commits, files |-> files]]
         /\ UNCHANGED <<lastCommitSha, delivered, deliveredFiles, preBaseline>>

\* a developer commits
Commit ==
    /\ head < MaxCommits
    /\ head' = head + 1
    /\ UNCHANGED <<started, watching, lastCommitSha, timeoutId, runs, delivered, deliveredFiles,
                   preBaseline, startSha, startHead, seen, overlap, fires>>
    /\ UNCHANGED <<dvars, cvars, qvars, uvars>>

\* start(): git.log({maxCount: 1}) gives the tip, or throws (baseline stays null)
Start ==
    /\ ~started
    /\ \E ok \in BOOLEAN :
         lastCommitSha' = IF ok THEN head ELSE 0
    /\ startSha' = lastCommitSha'
    /\ startHead' = head
    /\ started' = TRUE
    /\ watching' = TRUE
    /\ UNCHANGED <<head, timeoutId, runs, delivered, deliveredFiles, preBaseline, seen, overlap, fires>>
    /\ UNCHANGED <<dvars, cvars, qvars, uvars>>

\* chokidar 'change' on .git/logs/HEAD -> debouncedHandleChange(): (re)start the timer
Change ==
    /\ watching
    /\ timeoutId' = TRUE
    /\ UNCHANGED <<head, started, watching, lastCommitSha, runs, delivered, deliveredFiles,
                   preBaseline, startSha, startHead, seen, overlap, fires>>
    /\ UNCHANGED <<dvars, cvars, qvars, uvars>>

\* the debounce timer fires: handleGitChange() runs up to "await this.git.log"
TimerFire(r) ==
    /\ timeoutId
    /\ fires < MaxFires
    /\ runs[r].pc = "idle"
    /\ \A q \in RunIds : q < r => runs[q].pc # "idle"
    /\ timeoutId' = FALSE
    /\ fires' = fires + 1
    /\ runs' = [runs EXCEPT ![r] = [IdleRun EXCEPT !.pc = "log", !.from = lastCommitSha]]
    /\ overlap' = (overlap \/ \E q \in RunIds : q # r /\ runs[q].pc # "idle")
    /\ UNCHANGED <<head, started, watching, lastCommitSha, delivered, deliveredFiles, preBaseline,
                   startSha, startHead, seen>>
    /\ UNCHANGED <<dvars, cvars, qvars, uvars>>

\* git.log resolves: the loop runs to its first getCommitFiles, or to the end
LogReturn(r) ==
    /\ runs[r].pc = "log"
    /\ seen' = Max(seen, head)
    /\ LoopFrom(r, GitLog(runs[r].from, head), 1, <<>>, <<>>)
    /\ UNCHANGED <<head, started, watching, timeoutId, startSha, startHead, overlap, fires>>
    /\ UNCHANGED <<dvars, cvars, qvars, uvars>>

\* git.log rejects: getNewCommits logs and returns [], handleGitChange returns
LogThrow(r) ==
    /\ runs[r].pc = "log"
    /\ HandleBatch(r, ChronologicalOrder(<<>>), ChronologicalOrder(<<>>))
    /\ UNCHANGED <<head, started, watching, timeoutId, startSha, startHead, seen, overlap, fires>>
    /\ UNCHANGED <<dvars, cvars, qvars, uvars>>

\* getCommitFiles resolves (it never rejects): push the commit with the files
\* it returned, go on with the loop
FilesReturn(r) ==
    /\ runs[r].pc = "files"
    /\ LoopFrom(r, runs[r].logAll, runs[r].i + 1,
                Append(runs[r].commits, runs[r].logAll[runs[r].i]),
                Append(runs[r].files, GetCommitFiles(runs[r].logAll[runs[r].i])))
    /\ UNCHANGED <<head, started, watching, timeoutId, startSha, startHead, seen, overlap, fires>>
    /\ UNCHANGED <<dvars, cvars, qvars, uvars>>

\* stop(): closes the chokidar watcher; the debounce timer is not touched
Stop ==
    /\ watching
    /\ watching' = FALSE
    /\ UNCHANGED <<head, started, lastCommitSha, timeoutId, runs, delivered, deliveredFiles,
                   preBaseline, startSha, startHead, seen, overlap, fires>>
    /\ UNCHANGED <<dvars, cvars, qvars, uvars>>

\* ------------------------------------------------------- claims: GitWatcher
AllIdle == \A r \in RunIds : runs[r].pc = "idle"

Batches == 1..Len(delivered)

\* no commit appears in two different batches
NoDuplicates ==
    \A a, b \in Batches : a # b => Range(delivered[a]) \cap Range(delivered[b]) = {}

\* every commit made after start() that an extraction has listed was handed over
NoneMissed ==
    \A c \in (startHead + 1)..seen : \E k \in Batches : c \in Range(delivered[k])

\* C1: with extractions running one after another, every commit created after
\* the baseline of start() is handed to the callback exactly once: none is in
\* two batches, and once the extractions have ended none is missing.
C1_ExactlyOnce ==
    ~overlap => (NoDuplicates /\ (AllIdle => NoneMissed))

\* C2: the baseline is the newest commit of the last non-empty batch handed
\* over; extractions that fail or find nothing leave it as it was (so before
\* the first batch it is still the baseline of start()).
C2_BaselineIsNewest ==
    lastCommitSha = IF delivered = <<>> THEN startSha
                    ELSE delivered[Len(delivered)][Len(delivered[Len(delivered)])]

\* C3: every batch handed to the callback lists its commits in creation order,
\* oldest first; with extractions running one after another it is the unbroken
\* run of commits made after the baseline.
C3_CreationOrder ==
    \A k \in Batches :
        LET b == delivered[k] IN
        /\ \A n \in 1..(Len(b) - 1) : b[n] < b[n + 1]
        /\ ~overlap => \A n \in 1..(Len(b) - 1) : b[n + 1] = b[n] + 1
        /\ (~overlap /\ preBaseline[k] # 0) => b[1] = preBaseline[k] + 1

C3_Witness ==
    \E k \in Batches : Len(delivered[k]) >= 3 /\ preBaseline[k] # 0 /\ ~overlap

\* C4: no batch handed to the callback contains the commit that was the
\* watcher's baseline when the batch was handed over.
C4_NeverReportsBaseline ==
    \A k \in Batches : preBaseline[k] \notin Range(delivered[k])


\* ------------------------------------------------------------ MandrelClient
Responses == {"ok", "nack", "c4xx", "s5xx", "neterr", "badjson"}

\* isRetryableError: TypeError (fetch failure) and "HTTP 5xx" are retried
NeverRetryable(resp) == FALSE
IsRetryableError(resp) == resp \in {"s5xx", "neterr"}

\* the request reached the server: 2xx (response.ok), and 4xx
OnlySuccess(resp) == resp \in {"ok", "nack"}
ReachedServer(resp) == resp \in {"ok", "nack", "c4xx"}

\* markSuccess
MarkSuccess == [state |-> "connected", failures |-> 0]

\* markFailure
NeverDisconnects(state, failures) == [state |-> state, failures |-> failures + 1]
MarkFailure(state, failures) ==
    [state |-> IF failures + 1 >= FailureThreshold THEN "disconnected" ELSE state,
     failures |-> failures + 1]

\* one iteration of fetchWithRetry's loop, from the response of fetch() on:
\* "retry" (the loop goes on to its next sleep and fetch), or the call returns
\* "done" with result.success for 2xx and "failed" otherwise
RetriesClientErrors(resp, attempt) ==
    IF resp \in {"ok", "nack"} THEN "done"
    ELSE IF ~(IsRetryableError(resp) \/ resp = "c4xx") \/ attempt = MaxRetries
    THEN "failed"
    ELSE "retry"
RetriesOnceMore(resp, attempt) ==
    IF resp \in {"ok", "nack"} THEN "done"
    ELSE IF resp = "c4xx" THEN "failed"
    ELSE IF ~IsRetryableError(resp) \/ attempt = MaxRetries + 1 THEN "failed"
    ELSE "retry"
FetchOutcome(resp, attempt) ==
    IF resp \in {"ok", "nack"} THEN "done"
    ELSE IF resp = "c4xx" THEN "failed"
    ELSE IF ~IsRetryableError(resp) \/ attempt = MaxRetries THEN "failed"
    ELSE "retry"

\* the client's health fields after that iteration: a retry goes through
\* "this.connectionState = 'connecting'" before it sleeps
ClientAfter(resp, attempt) ==
    IF ReachedServer(resp) THEN MarkSuccess
    ELSE LET f == MarkFailure(connectionState, consecutiveFailures) IN
         IF FetchOutcome(resp, attempt) = "retry"
         THEN [f EXCEPT !.state = "connecting"]
         ELSE f

\* getActiveSession: null unless the request succeeded and the body has
\* success = true and a session ("ok"); a 404 is logged and gives null as well
GetActiveSessionResult(resp, attempt) ==
    FetchOutcome(resp, attempt) = "done" /\ resp = "ok"

\* pushStats: "result.success && result.data?.success"
AnySuccess(resp, attempt) == FetchOutcome(resp, attempt) = "done"
PushStatsResult(resp, attempt) ==
    FetchOutcome(resp, attempt) = "done" /\ resp = "ok"

\* what the endpoint may answer now: it fails at most MaxFaults times
Answers == IF faults < MaxFaults THEN Responses ELSE {"ok"}

FaultsAfter(resp) == IF resp = "ok" THEN faults ELSE faults + 1

\* --------------------------------------------------------------- RetryQueue
\* what Date.now() may give: the time of the last reading, or a time later by
\* as long as an item may stay in the queue
Clock ==
    {now} \cup (IF now < MaxTicks * MAX_ITEM_AGE_MS THEN {now + MAX_ITEM_AGE_MS} ELSE {})

NoFile == [state |-> "absent", items |-> <<>>]

QueueIds(q) == {q[k].id : k \in DOMAIN q}

\* cleanup's age filter
AlwaysFresh(item, t) == TRUE
NotExpired(item, t) == t - item.createdAt < MAX_ITEM_AGE_MS

\* "this.queue.slice(-MAX_QUEUE_SIZE)"
Oldest(q, n) == SubSeq(q, 1, n)
Newest(q, n) == SubSeq(q, Len(q) - n + 1, Len(q))

\* cleanup: the age filter, then the size trim that keeps the newest
Cleanup(q, t) ==
    LET fresh == SelectSeq(q, LAMBDA item : NotExpired(item, t)) IN
    IF Len(fresh) > MAX_QUEUE_SIZE
    THEN Newest(fresh, MAX_QUEUE_SIZE)
    ELSE fresh

\* enqueue up to "await this.save()": the new item, push, cleanup. generateId
\* gives a fresh id; the model uses the number of the payload, queued once
NewItem(payload, t, error) ==
    [id |-> payload, payload |-> payload, attempts |-> 1, createdAt |-> t,
     lastAttemptAt |-> t, error |-> error]

Enqueued(q, payload, t, error) ==
    Cleanup(Append(q, NewItem(payload, t, error)), t)

\* markAttempt up to "await this.save()": "this.queue.find", the first match
CountsTwice(q, id, t, error) ==
    [k \in DOMAIN q |-> IF q[k].id = id THEN [q[k] EXCEPT !.attempts = @ + 2] ELSE q[k]]
MarkAttempt(q, id, t, error) ==
    [k \in DOMAIN q |->
        IF q[k].id = id /\ \A j \in 1..(k - 1) : q[j].id # id
        THEN [q[k] EXCEPT !.attempts = @ + 1, !.lastAttemptAt = t,
                          !.error = error]
        ELSE q[k]]

\* remove up to "await this.save()"
KeepAll(q, id) == q
DropsNewer(q, id) == SelectSeq(q, LAMBDA item : item.id < id)
Remove(q, id) == SelectSeq(q, LAMBDA item : item.id # id)

\* the keys of a QueuedItem; "error?: string" may be undefined
ItemKeys == {"id", "payload", "attempts", "createdAt", "lastAttemptAt", "error"}

OptionalKeys == {"error"}

Undefined == "undefined"

\* an item that an earlier run of the daemon left in the queue file
OldItem == NewItem(0, 0, "Initial push failed")

\* the n items that an earlier run left, the newest of them being OldItem
OldItems(n) == [k \in 1..n |-> NewItem(k - n, 0, "Initial push failed")]

\* JSON.stringify of an item leaves out the keys whose value is undefined
ForgetsAttempts(item) == [k \in DOMAIN item |-> IF k = "attempts" THEN 1 ELSE item[k]]
Stringify(item) ==
    [k \in DOMAIN item \ {f \in OptionalKeys : item[f] = Undefined} |-> item[k]]

\* JSON.parse of an item: a key the text does not have reads as undefined
Parse(json) ==
    [k \in ItemKeys |-> IF k \in DOMAIN json THEN json[k] ELSE Undefined]

\* save: JSON.stringify(this.queue) is taken when save() is called
Serialize(q) == [state |-> "ok", items |-> [k \in DOMAIN q |-> Stringify(q[k])]]

\* what may be found at the path of the queue file: nothing ("absent"), the
\* array a save() wrote ("ok"), only white space ("blank"), text that is not
\* JSON ("torn"), JSON that is not an array ("notarray"), or something that
\* cannot be read, as a directory or a file without permission ("unreadable")
BadFiles ==
    {[state |-> st, items |-> <<>>] : st \in {"blank", "torn", "notarray", "unreadable"}}

\* the statement of load that throws on file f: readFileSync, JSON.parse, or
\* cleanup ("this.queue.filter" of a value that is not an array)
ThrownBy(f) ==
    CASE f.state = "unreadable" -> "read"
      [] f.state = "torn" -> "parse"
      [] f.state = "notarray" -> "cleanup"
      [] OTHER -> "none"

\* the statements inside load's "try { ... } catch": all of them
OnlyParse == {"parse"}
TryBlock == {"exists", "read", "parse", "cleanup"}

\* load, and with it the constructor, raises when a statement outside the try
\* block throws
LoadRaises(f) == ThrownBy(f) \notin TryBlock \cup {"none"}

\* what "new RetryQueue()" ends as
Construction(f) == IF LoadRaises(f) THEN "raised" ELSE "load"

\* load: a missing file leaves the queue empty, a file that does not parse
\* resets it; otherwise JSON.parse, then cleanup
Load(f, t) ==
    IF f.state = "ok"
    THEN Cleanup([k \in DOMAIN f.items |-> Parse(f.items[k])], t)
    ELSE <<>>

\* processQueue's guard: "if (this.processing || this.queue.length === 0) return 0"
GuardIgnoresFlag(busy, q) == Len(q) = 0
SingleFlightGuard(busy, q) == busy \/ Len(q) = 0

\* "const itemsToProcess = [...this.queue]": the pass reads id and payload of each
Snapshot(q) == [k \in DOMAIN q |-> [id |-> q[k].id, payload |-> q[k].payload]]

\* ------------------------------------------------- RetryQueue on its own
\* the operations of one RetryQueue, each awaited before the next is called
\* enqueue(payload), awaited: the item, cleanup, and the file written
QEnqueue ==
    LET q2 == Enqueued(queue, enqueued + 1, now, Undefined) IN
    /\ enqueued < MaxExtra
    /\ enqueued' = enqueued + 1
    /\ queue' = q2
    /\ evicted' = evicted \cup ((QueueIds(queue) \cup {enqueued + 1}) \ QueueIds(q2))
    /\ file' = Serialize(q2)
    /\ lastOp' = "enqueue"
    /\ UNCHANGED <<processing, connectionState, consecutiveFailures, handlers, timers,
                   now, faults, acked, lastPass, crashes>>
    /\ UNCHANGED <<wvars, cvars, uvars>>

\* markAttempt(id, error) for the oldest item, awaited
QMarkAttempt ==
    /\ Len(queue) > 0
    /\ faults < MaxFaults
    /\ faults' = faults + 1
    /\ queue' = MarkAttempt(queue, queue[1].id, now, "Push returned false")
    /\ file' = Serialize(queue')
    /\ lastOp' = "markAttempt"
    /\ UNCHANGED <<processing, connectionState, consecutiveFailures, handlers, timers,
                   now, acked, evicted, lastPass, crashes, enqueued>>
    /\ UNCHANGED <<wvars, cvars, uvars>>

\* time passes: half of the time an item may stay in the queue
QTick ==
    /\ now < MaxTicks * MAX_ITEM_AGE_MS
    /\ now' = now + (MAX_ITEM_AGE_MS \div 2)
    /\ UNCHANGED <<queue, processing, file, connectionState, consecutiveFailures,
                   handlers, timers, faults, acked, evicted, lastPass, crashes>>
    /\ UNCHANGED <<wvars, cvars, qvars, uvars>>

\* new RetryQueue(): load reads the file, then cleanup
QRestart ==
    /\ queue' = Load(file, now)
    /\ evicted' = evicted \cup (QueueIds(file.items) \ QueueIds(queue'))
    /\ lastOp' = Construction(file)
    /\ UNCHANGED <<processing, file, connectionState, consecutiveFailures, handlers,
                   timers, now, faults, acked, lastPass, crashes, enqueued>>
    /\ UNCHANGED <<wvars, cvars, uvars>>

\* ------------------------------------------------ client operations, called
\* a call: where it is ("fetch": a request is awaited, "sleep": a backoff delay
\* is awaited, "done": it has returned), the loop variable of fetchWithRetry,
\* the requests it made, its failed attempts, the last response, what it returned
IdleCall == [pc |-> "idle", op |-> "", attempt |-> 0, requests |-> 0, failures |-> 0,
             last |-> "", result |-> FALSE]

\* the operations the daemon calls: pushStats and healthCheck
Ops == {"push", "health"}

\* healthCheck: "if (response.ok)", whatever the body
HealthOk(resp) == resp \in {"ok", "nack", "badjson"}

\* an operation is called: up to its first "await fetch(...)"
Invoke(c, op) ==
    /\ calls[c].pc \in {"idle", "done"}
    /\ \A g \in CallIds : g < c => calls[g].pc # "idle"
    /\ calls' = [calls EXCEPT ![c] = [IdleCall EXCEPT !.pc = "fetch", !.op = op,
                                                      !.requests = 1]]
    /\ UNCHANGED <<dvars, wvars, qvars, uvars>>

\* the request of a healthCheck settles: markSuccess or markFailure, no retry
SettleHealth(c, resp) ==
    LET h == IF HealthOk(resp) THEN MarkSuccess
             ELSE MarkFailure(connectionState, consecutiveFailures) IN
    /\ connectionState' = h.state
    /\ consecutiveFailures' = h.failures
    /\ calls' = [calls EXCEPT ![c].pc = "done", ![c].last = resp,
                              ![c].result = HealthOk(resp),
                              ![c].failures = IF HealthOk(resp) THEN 0 ELSE 1]

\* a request of fetchWithRetry settles: the rest of the loop body, up to the
\* return or to "await this.sleep(delay)" of the next iteration
SettleFetch(c, resp) ==
    LET C == calls[c]
        after == ClientAfter(resp, C.attempt)
        failed == IF ReachedServer(resp) THEN C.failures ELSE C.failures + 1
    IN
    /\ connectionState' = after.state
    /\ consecutiveFailures' = after.failures
    /\ calls' = [calls EXCEPT ![c] =
                    IF FetchOutcome(resp, C.attempt) = "retry"
                    THEN [C EXCEPT !.pc = "sleep", !.attempt = @ + 1,
                                   !.failures = failed, !.last = resp]
                    ELSE [C EXCEPT !.pc = "done", !.failures = failed, !.last = resp,
                                   !.result =
                                       IF C.op = "session"
                                       THEN GetActiveSessionResult(resp, C.attempt)
                                       ELSE PushStatsResult(resp, C.attempt)]]

\* a request settles; the consecutive failures are capped at MaxFailures
Settle(c, resp) ==
    /\ calls[c].pc = "fetch"
    /\ consecutiveFailures < MaxFailures
         \/ IF calls[c].op = "health" THEN HealthOk(resp) ELSE ReachedServer(resp)
    /\ IF calls[c].op = "health" THEN SettleHealth(c, resp) ELSE SettleFetch(c, resp)
    /\ UNCHANGED <<queue, processing, file, handlers, timers, now, faults, acked,
                   evicted, lastPass, crashes>>
    /\ UNCHANGED <<wvars, qvars, uvars>>

\* the backoff delay is over: the next fetch is awaited
Wake(c) ==
    /\ calls[c].pc = "sleep"
    /\ calls' = [calls EXCEPT ![c].pc = "fetch", ![c].requests = @ + 1]
    /\ UNCHANGED <<dvars, wvars, qvars, uvars>>

\* ---------------------------------------------------------------- Dispatcher
IdleHandler == [pc |-> "idle", attempt |-> 0, snap |-> NoFile]

\* late: the items enqueued while the pass was suspended in pushFn
IdleTimer == [pc |-> "idle", items |-> <<>>, idx |-> 0, count |-> 0, attempt |-> 0,
              snap |-> NoFile, then |-> "", outcomes |-> <<>>, late |-> {}]

NoPass == [noop |-> FALSE, busy |-> FALSE, ret |-> 0, ids |-> <<>>, outcomes |-> <<>>]

\* pushWithRetry: "if (!success) await retryQueue.enqueue(...)"
NeverQueued(success) == FALSE
QueueOnFailure(success) == ~success

\* mandrelClient.getSessionForProject: a best-effort, cached lookup that gives
\* the project's session or none and does not raise
GetSessionForProject == {"session", "none"}

\* "project_name: mandrelProject": every payload is of one repository. All
\* watchers share the one handleCommits, client and queue; the payloads of this
\* run are of repository "B", the item an earlier run left is of repository "A"
Repository(payload) == IF payload = OldItem.payload THEN "A" ELSE "B"

\* a watcher calls handleCommits with its p-th batch: the session lookup, then
\* pushStats is called and its first fetch is awaited
OnCommit(p) ==
    /\ handlers[p].pc = "idle"
    /\ \E session \in GetSessionForProject : TRUE
    /\ \A g \in PayloadIds : g < p => handlers[g].pc # "idle"
    /\ handlers' = [handlers EXCEPT ![p].pc = "push"]
    /\ UNCHANGED <<queue, processing, file, connectionState, consecutiveFailures,
                   timers, now, faults, acked, evicted, lastPass, crashes>>
    /\ UNCHANGED <<wvars, cvars, qvars, uvars>>

\* a fetch of the handler's pushStats settles
HandlerFetch(p, resp) ==
    LET H == handlers[p]
        c == ClientAfter(resp, H.attempt)
        q2 == Enqueued(queue, p, now', "Initial push failed")
    IN
    /\ H.pc = "push"
    /\ resp \in Answers
    /\ faults' = FaultsAfter(resp)
    /\ connectionState' = c.state
    /\ consecutiveFailures' = c.failures
    /\ acked' = IF resp = "ok" THEN acked \cup {p} ELSE acked
    /\ IF FetchOutcome(resp, H.attempt) = "retry"
       THEN /\ handlers' = [handlers EXCEPT ![p].attempt = @ + 1]
            /\ UNCHANGED <<queue, evicted, now, timers>>
       ELSE IF QueueOnFailure(PushStatsResult(resp, H.attempt))
       THEN /\ now' \in Clock
            /\ queue' = q2
            /\ evicted' = evicted \cup ((QueueIds(queue) \cup {p}) \ QueueIds(q2))
            /\ handlers' = [handlers EXCEPT ![p].pc = "save", ![p].snap = Serialize(q2)]
            /\ timers' = [t \in TimerIds |->
                            IF timers[t].pc = "push"
                            THEN [timers[t] EXCEPT !.late = @ \cup {p}]
                            ELSE timers[t]]
       ELSE /\ handlers' = [handlers EXCEPT ![p] = [IdleHandler EXCEPT !.pc = "done"]]
            /\ UNCHANGED <<queue, evicted, now, timers>>
    /\ UNCHANGED <<processing, file, lastPass, crashes>>
    /\ UNCHANGED <<wvars, cvars, qvars, uvars>>

\* the write of enqueue's save() lands: enqueue returns, the handler finishes
HandlerSaved(p) ==
    /\ handlers[p].pc = "save"
    /\ file' = handlers[p].snap
    /\ handlers' = [handlers EXCEPT ![p] = [IdleHandler EXCEPT !.pc = "queued"]]
    /\ UNCHANGED <<queue, processing, connectionState, consecutiveFailures, timers,
                   now, faults, acked, evicted, lastPass, crashes>>
    /\ UNCHANGED <<wvars, cvars, qvars, uvars>>

\* processQueue's last lines: "this.processing = false; return successCount"
KeepsFlag(t) == processing
ReleaseFlag(t) == FALSE

EndPass(t, count, outcomes) ==
    /\ processing' = ReleaseFlag(t)
    /\ lastPass' = [noop |-> FALSE, busy |-> FALSE, ret |-> count,
                    ids |-> [k \in DOMAIN timers[t].items |-> timers[t].items[k].id],
                    outcomes |-> outcomes]
    /\ timers' = [timers EXCEPT ![t] = IdleTimer]

\* processQueue is called: the guard, or the flag, the snapshot and the first pushFn
EnterProcessQueue(t) ==
    IF SingleFlightGuard(processing, queue)
    THEN /\ timers' = [timers EXCEPT ![t] = IdleTimer]
         /\ lastPass' = [NoPass EXCEPT !.noop = TRUE, !.busy = processing]
         /\ UNCHANGED processing
    ELSE /\ processing' = TRUE
         /\ timers' = [timers EXCEPT ![t] =
                          [IdleTimer EXCEPT !.pc = "push", !.items = Snapshot(queue),
                                            !.idx = 1]]
         /\ UNCHANGED lastPass

\* the interval fires: processRetryQueue up to its first await
TimerTick(t) ==
    /\ timers[t].pc = "idle"
    /\ \A u \in TimerIds : u < t => timers[u].pc # "idle"
    /\ Len(queue) > 0
    /\ IF connectionState = "disconnected"
       THEN /\ timers' = [timers EXCEPT ![t].pc = "health"]
            /\ UNCHANGED <<processing, lastPass>>
       ELSE EnterProcessQueue(t)
    /\ UNCHANGED <<queue, file, connectionState, consecutiveFailures, handlers, now,
                   faults, acked, evicted, crashes>>
    /\ UNCHANGED <<wvars, cvars, qvars, uvars>>

\* processRetryQueue after the health check: "if (!healthy) return"
SkipsNothing(healthy) == TRUE
PassAllowed(healthy) == healthy

\* healthCheck settles: one request, markSuccess or markFailure, no retry
HealthReturn(t, healthy) ==
    LET c == IF healthy THEN MarkSuccess
             ELSE MarkFailure(connectionState, consecutiveFailures) IN
    /\ timers[t].pc = "health"
    /\ healthy \/ faults < MaxFaults
    /\ faults' = IF healthy THEN faults ELSE faults + 1
    /\ connectionState' = c.state
    /\ consecutiveFailures' = c.failures
    /\ IF PassAllowed(healthy)
       THEN EnterProcessQueue(t)
       ELSE /\ timers' = [timers EXCEPT ![t] = IdleTimer]
            /\ UNCHANGED <<processing, lastPass>>
    /\ UNCHANGED <<queue, file, handlers, now, acked, evicted, crashes>>
    /\ UNCHANGED <<wvars, cvars, qvars, uvars>>

\* what the loop does after a failed item: "break"
GoesOn(t) == "next"
StopsAtFailure(t) == "break"

\* the failure branches of the loop: markAttempt(id, error), then break
PassFailed(t, error, outcome) ==
    LET T == timers[t]
        item == T.items[T.idx]
        outs == Append(T.outcomes, outcome)
    IN
    IF item.id \in QueueIds(queue)
    THEN /\ now' \in Clock
         /\ queue' = MarkAttempt(queue, item.id, now', error)
         /\ timers' = [timers EXCEPT ![t].pc = "save", ![t].then = StopsAtFailure(t),
                                     ![t].outcomes = outs,
                                     ![t].snap = Serialize(queue')]
         /\ UNCHANGED <<processing, lastPass>>
    ELSE /\ EndPass(t, T.count, outs)
         /\ UNCHANGED <<queue, now>>

\* a fetch of the pass's pushFn (mandrelClient.pushStats) settles
PassFetch(t, resp) ==
    LET T == timers[t]
        item == T.items[T.idx]
        c == ClientAfter(resp, T.attempt)
    IN
    /\ T.pc = "push"
    /\ resp \in Answers
    /\ faults' = FaultsAfter(resp)
    /\ connectionState' = c.state
    /\ consecutiveFailures' = c.failures
    /\ acked' = IF resp = "ok" THEN acked \cup {item.payload} ELSE acked
    /\ IF FetchOutcome(resp, T.attempt) = "retry"
       THEN /\ timers' = [timers EXCEPT ![t].attempt = @ + 1]
            /\ UNCHANGED <<queue, processing, lastPass, now>>
       ELSE IF PushStatsResult(resp, T.attempt)
       THEN /\ queue' = Remove(queue, item.id)
            /\ timers' = [timers EXCEPT ![t].pc = "save", ![t].then = "next",
                                        ![t].outcomes = Append(T.outcomes, "ok"),
                                        ![t].snap = Serialize(queue')]
            /\ UNCHANGED <<processing, lastPass, now>>
       ELSE PassFailed(t, "Push returned false", "false")
    /\ UNCHANGED <<file, handlers, evicted, crashes>>
    /\ UNCHANGED <<wvars, cvars, qvars, uvars>>

\* a pushFn that raises (processQueue takes any pushFn): the catch branch
PassRaise(t) ==
    /\ timers[t].pc = "push"
    /\ faults < MaxFaults
    /\ faults' = faults + 1
    /\ PassFailed(t, "raised", "raise")
    /\ UNCHANGED <<file, connectionState, consecutiveFailures, handlers, acked,
                   evicted, crashes>>
    /\ UNCHANGED <<wvars, cvars, qvars, uvars>>

\* save() of remove or markAttempt returns, the file written or, the error of
\* Bun.write caught and logged, left as it was: the loop goes on or ends
PassSaved(t) ==
    LET T == timers[t]
        count == IF T.outcomes[Len(T.outcomes)] = "ok" THEN T.count + 1 ELSE T.count
    IN
    /\ T.pc = "save"
    /\ \E written \in BOOLEAN :
         /\ written \/ faults < MaxFaults
         /\ faults' = IF written THEN faults ELSE faults + 1
         /\ file' = IF written THEN T.snap ELSE file
    /\ IF T.then = "next" /\ T.idx + 1 <= Len(T.items)
       THEN /\ timers' = [timers EXCEPT ![t].pc = "push", ![t].idx = @ + 1,
                                        ![t].count = count, ![t].attempt = 0,
                                        ![t].then = "", ![t].snap = NoFile]
            /\ UNCHANGED <<processing, lastPass>>
       ELSE EndPass(t, count, T.outcomes)
    /\ UNCHANGED <<queue, connectionState, consecutiveFailures, handlers, now,
                   acked, evicted, crashes>>
    /\ UNCHANGED <<wvars, cvars, qvars, uvars>>

\* the snapshots of the save() calls whose write has not landed
InFlight ==
    {handlers[p].snap : p \in {g \in PayloadIds : handlers[g].pc = "save"}}
    \cup {timers[t].snap : t \in {u \in TimerIds : timers[u].pc = "save"}}

\* what the file holds after the process died: Bun.write overwrites in place, so
\* with writes in flight it is the old content, one of the new ones, or a torn file
FileAfterCrash ==
    IF InFlight = {} THEN {file}
    ELSE {file, [state |-> "torn", items |-> <<>>]} \cup InFlight

\* the daemon dies and is started again: new RetryQueue() loads the file, the
\* client starts disconnected, no handler and no timer callback is in progress
CrashRestart ==
    /\ crashes < MaxCrashes
    /\ crashes' = crashes + 1
    /\ now' \in Clock
    /\ \E f \in FileAfterCrash :
         /\ file' = f
         /\ queue' = Load(f, now')
         /\ evicted' = evicted \cup (QueueIds(f.items) \ QueueIds(queue'))
    /\ processing' = FALSE
    /\ connectionState' = "disconnected"
    /\ consecutiveFailures' = 0
    /\ handlers' = [p \in PayloadIds |->
                      IF handlers[p].pc \in {"push", "save"}
                      THEN [IdleHandler EXCEPT !.pc = "lost"]
                      ELSE handlers[p]]
    /\ timers' = [t \in TimerIds |-> IdleTimer]
    /\ lastPass' = NoPass
    /\ UNCHANGED <<faults, acked>>
    /\ UNCHANGED <<wvars, cvars, qvars, uvars>>

\* ---------------------------------------------- calculateDelay on its own
\* DEFAULT_RETRY_CONFIG, without maxRetries (MaxRetries stands for it)
DefaultRetryConfig ==
    [baseDelayMs |-> 1000, maxDelayMs |-> 30000, backoffMultiplier |-> 2]

\* the configurations a caller may pass to the constructor: a positive base
\* delay, a multiplier of at least 1, a cap below or above the base delay
RetryConfigs ==
    [baseDelayMs : {1000, 20000}, maxDelayMs : {1500, 30000},
     backoffMultiplier : {1, 2, 3}]

\* Math.random(), in thousandths
Randoms == {0, 500, 999}

RECURSIVE Pow(_, _)
Pow(b, e) == IF e = 0 THEN 1 ELSE b * Pow(b, e - 1)

Min(a, b) == IF a < b THEN a ELSE b

\* calculateDelay(attempt) with Math.random() = rnd / 1000; the jitter is
\* rounded down to whole milliseconds
Uncapped(cfg, attempt, rnd) ==
    LET delay == cfg.baseDelayMs * Pow(cfg.backoffMultiplier, attempt) IN
    delay + (rnd * 3 * delay) \div 10000
CalculateDelay(cfg, attempt, rnd) ==
    LET delay == cfg.baseDelayMs * Pow(cfg.backoffMultiplier, attempt)
        jitter == (rnd * 3 * delay) \div 10000
    IN Min(delay + jitter, cfg.maxDelayMs)

\* fetchWithRetry before its n-th retry: "this.calculateDelay(attempt - 1)"
Backoff(rnd) ==
    LET n == Len(delays) + 1 IN
    /\ n <= MaxRetries
    /\ delays' = Append(delays, [attempt |-> n, rnd |-> rnd,
                                 delay |-> CalculateDelay(retryConfig, n - 1, rnd)])
    /\ UNCHANGED <<retryConfig, clock, triggers, debounceTimer, lastKey, fired>>
    /\ UNCHANGED <<wvars, dvars, cvars, qvars>>

\* -------------------------------------------- a debounced function on its own
\* the arguments of a call are told apart by the number of the call; Keys are
\* the values of getKey
Keys == {"a", "b"}

\* "let lastKey: string | null = null"
NoKey == "null"

NoTimeout == [armed |-> FALSE, args |-> 0, key |-> NoKey, due |-> 0]

\* "if (timeoutId) clearTimeout(timeoutId); timeoutId = setTimeout(..., delay)"
KeepsPending(pending, args, key, t) ==
    IF pending.armed THEN pending
    ELSE [armed |-> TRUE, args |-> args, key |-> key, due |-> t + DebounceMs]
Restart(pending, args, key, t) ==
    [armed |-> TRUE, args |-> args, key |-> key, due |-> t + DebounceMs]

\* debounceWithDedup: "if (key === lastKey) return"
NeverSame(key, last) == FALSE
SameKey(key, last) == key = last

\* debounceWithDedup's timer callback: "lastKey = key"
KeyForgotten(key) == NoKey
KeyAfterFire(key) == key

\* the function debounce(fn, delay) returned is called
Trigger(key) ==
    /\ Len(triggers) < MaxTriggers
    /\ triggers' = Append(triggers, [key |-> key, at |-> clock, dropped |-> FALSE])
    /\ debounceTimer' = Restart(debounceTimer, Len(triggers) + 1, key, clock)
    /\ UNCHANGED <<retryConfig, delays, clock, lastKey, fired>>
    /\ UNCHANGED <<wvars, dvars, cvars, qvars>>

\* debounce's timer callback: "fn(...args); timeoutId = null"
Fire ==
    /\ debounceTimer.armed
    /\ clock >= debounceTimer.due
    /\ fired' = Append(fired, [args |-> debounceTimer.args, key |-> debounceTimer.key,
                               at |-> clock])
    /\ debounceTimer' = NoTimeout
    /\ UNCHANGED <<retryConfig, delays, clock, triggers, lastKey>>
    /\ UNCHANGED <<wvars, dvars, cvars, qvars>>

\* the function debounceWithDedup(fn, delay, getKey) returned is called
DedupTrigger(key) ==
    /\ Len(triggers) < MaxTriggers
    /\ IF SameKey(key, lastKey)
       THEN /\ triggers' = Append(triggers, [key |-> key, at |-> clock, dropped |-> TRUE])
            /\ UNCHANGED debounceTimer
       ELSE /\ triggers' = Append(triggers, [key |-> key, at |-> clock, dropped |-> FALSE])
            /\ debounceTimer' = Restart(debounceTimer, Len(triggers) + 1, key, clock)
    /\ UNCHANGED <<retryConfig, delays, clock, lastKey, fired>>
    /\ UNCHANGED <<wvars, dvars, cvars, qvars>>

\* debounceWithDedup's timer callback: "lastKey = key; fn(...args); timeoutId = null"
DedupFire ==
    /\ debounceTimer.armed
    /\ clock >= debounceTimer.due
    /\ lastKey' = KeyAfterFire(debounceTimer.key)
    /\ fired' = Append(fired, [args |-> debounceTimer.args, key |-> debounceTimer.key,
                               at |-> clock])
    /\ debounceTimer' = NoTimeout
    /\ UNCHANGED <<retryConfig, delays, clock, triggers>>
    /\ UNCHANGED <<wvars, dvars, cvars, qvars>>

\* time passes, by half the delay; a timer that is due runs before it does
Passing ==
    /\ clock < MaxClock * (DebounceMs \div 2)
    /\ ~(debounceTimer.armed /\ debounceTimer.due <= clock)
    /\ clock' = clock + (DebounceMs \div 2)
    /\ UNCHANGED <<retryConfig, delays, triggers, debounceTimer, lastKey, fired>>
    /\ UNCHANGED <<wvars, dvars, cvars, qvars>>

\* ------------------------------------------------------------ specifications
InitWatcher ==
    /\ started = FALSE
    /\ watching = FALSE
    /\ lastCommitSha = 0
    /\ timeoutId = FALSE
    /\ runs = [r \in RunIds |-> IdleRun]
    /\ delivered = <<>>
    /\ deliveredFiles = <<>>
    /\ preBaseline = <<>>
    /\ startSha = 0
    /\ startHead = 0
    /\ seen = 0
    /\ overlap = FALSE
    /\ fires = 0

\* no client operation has been called, no queue operation has been made
InitClient == calls = [c \in CallIds |-> IdleCall]

InitQueue == enqueued = 0 /\ lastOp = "load"

InitDebounce ==
    /\ clock = 0
    /\ triggers = <<>>
    /\ debounceTimer = NoTimeout
    /\ lastKey = NoKey
    /\ fired = <<>>

InitBackoff == retryConfig = DefaultRetryConfig /\ delays = <<>>

InitDispatch ==
    /\ file \in {NoFile, Serialize(<<OldItem>>)}
    /\ queue = Load(file, 0)
    /\ processing = FALSE
    /\ connectionState = "disconnected"
    /\ consecutiveFailures = 0
    /\ handlers = [p \in PayloadIds |-> IdleHandler]
    /\ timers = [t \in TimerIds |-> IdleTimer]
    /\ now = 0
    /\ faults = 0
    /\ acked = {}
    /\ evicted = {}
    /\ lastPass = NoPass
    /\ crashes = 0

\* one GitWatcher and its repository
InitW ==
    /\ InitWatcher /\ head \in 0..1 /\ InitDispatch /\ InitClient /\ InitQueue
    /\ InitDebounce /\ InitBackoff

\* the Dispatcher with its client and its queue; no repository is modelled
InitD ==
    /\ InitWatcher /\ head = 0 /\ InitDispatch /\ InitClient /\ InitQueue
    /\ InitDebounce /\ InitBackoff

NextWatcher ==
    \/ Commit
    \/ Start
    \/ Change
    \/ \E r \in RunIds : TimerFire(r)
    \/ \E r \in RunIds : LogReturn(r)
    \/ \E r \in RunIds : LogThrow(r)
    \/ \E r \in RunIds : FilesReturn(r)
    \/ Stop

NextDispatch ==
    \/ \E p \in PayloadIds : OnCommit(p)
    \/ \E p \in PayloadIds, resp \in Responses : HandlerFetch(p, resp)
    \/ \E p \in PayloadIds : HandlerSaved(p)
    \/ \E t \in TimerIds : TimerTick(t)
    \/ \E t \in TimerIds, healthy \in BOOLEAN : HealthReturn(t, healthy)
    \/ \E t \in TimerIds, resp \in Responses : PassFetch(t, resp)
    \/ \E t \in TimerIds : PassRaise(t)
    \/ \E t \in TimerIds : PassSaved(t)

\* a RetryQueue on its own; the file of an earlier run holds nothing, one item,
\* or as many items as the queue may hold
InitQ ==
    /\ InitWatcher /\ head = 0 /\ InitClient /\ InitDebounce /\ InitBackoff
    /\ file \in {NoFile, Serialize(OldItems(1)), Serialize(OldItems(MAX_QUEUE_SIZE))}
                 \cup BadFiles
    /\ queue = Load(file, 0)
    /\ enqueued = 0
    /\ lastOp = Construction(file)
    /\ processing = FALSE
    /\ connectionState = "disconnected"
    /\ consecutiveFailures = 0
    /\ handlers = [p \in PayloadIds |-> IdleHandler]
    /\ timers = [t \in TimerIds |-> IdleTimer]
    /\ now = 0
    /\ faults = 0
    /\ acked = {}
    /\ evicted = {}
    /\ lastPass = NoPass
    /\ crashes = 0

NextQueue ==
    \/ QEnqueue
    \/ QMarkAttempt
    \/ QTick
    \/ QRestart

\* a MandrelClient on its own, its operations called by MaxCalls callers
InitC == InitD /\ file = NoFile

NextClient ==
    \/ \E c \in CallIds, op \in Ops : Invoke(c, op)
    \/ \E c \in CallIds, resp \in Responses : Settle(c, resp)
    \/ \E c \in CallIds : Wake(c)

\* calculateDelay for the retries of one call, under a configuration
InitB ==
    /\ InitWatcher /\ head = 0 /\ InitDispatch /\ InitClient /\ InitQueue
    /\ InitDebounce
    /\ file = NoFile
    /\ retryConfig \in RetryConfigs \cup {DefaultRetryConfig}
    /\ delays = <<>>

NextBackoff == \E rnd \in Randoms : Backoff(rnd)

\* a function wrapped by debounce, and one wrapped by debounceWithDedup
NextDebounce ==
    \/ \E key \in Keys : Trigger(key)
    \/ Fire
    \/ Passing

NextDedup ==
    \/ \E key \in Keys : DedupTrigger(key)
    \/ DedupFire
    \/ Passing

\* a MandrelClient on which only getActiveSession is called
NextSession ==
    \/ \E c \in CallIds : Invoke(c, "session")
    \/ \E c \in CallIds, resp \in Responses : Settle(c, resp)
    \/ \E c \in CallIds : Wake(c)

NextCrash ==
    \/ NextDispatch
    \/ CrashRestart

SpecWatcher == InitW /\ [][NextWatcher]_vars

SpecDispatch == InitD /\ [][NextDispatch]_vars

SpecCrash == InitD /\ [][NextCrash]_vars

SpecQueue == InitQ /\ [][NextQueue]_vars

SpecClient == InitC /\ [][NextClient]_vars

SpecSession == InitC /\ [][NextSession]_vars

SpecBackoff == InitB /\ [][NextBackoff]_vars

SpecDebounce == InitC /\ [][NextDebounce]_vars

SpecDedup == InitC /\ [][NextDedup]_vars

\* the interval keeps firing, and every request and every write that was
\* started settles; what the endpoint answers, and whether commits arrive, is free
Fairness ==
    /\ WF_vars(\E t \in TimerIds : TimerTick(t))
    /\ WF_vars(\E t \in TimerIds, healthy \in BOOLEAN : HealthReturn(t, healthy))
    /\ WF_vars(\E t \in TimerIds, resp \in Responses : PassFetch(t, resp))
    /\ WF_vars(\E t \in TimerIds : PassSaved(t))
    /\ WF_vars(\E p \in PayloadIds, resp \in Responses : HandlerFetch(p, resp))
    /\ WF_vars(\E p \in PayloadIds : HandlerSaved(p))

\* what ends by itself in the client: the backoff sleep (a setTimeout), and the
\* request of healthCheck, which carries AbortSignal.timeout(5000). The fetch of
\* fetchWithRetry carries no signal: it settles when the endpoint answers or the
\* connection fails, which nothing in the client brings about
ClientFairness ==
    \A c \in CallIds :
        /\ WF_vars(Wake(c))
        /\ WF_vars(calls[c].op = "health" /\ \E resp \in Responses : Settle(c, resp))

SpecSilent == InitC /\ [][NextClient]_vars /\ ClientFairness

SpecLive == InitD /\ [][NextDispatch]_vars /\ Fairness

Spec == SpecWatcher

\* ------------------------------------------------------- claims: Dispatcher
\* C5: when the pushStats call of a commit handler ends without the endpoint's
\* acknowledgement, the handler appends the payload to the queue in that step;
\* and an item leaves the queue only in a step in which the endpoint has
\* acknowledged its payload or cleanup evicts it.
C5_QueuedUntilDelivered ==
    [][ /\ \A p \in PayloadIds :
             (handlers[p].pc = "push" /\ handlers'[p].pc # "push" /\ p \notin acked')
                 => (handlers'[p].pc = "save" /\ p \in QueueIds(queue'))
        /\ \A p \in PayloadIds :
             handlers'[p].pc \in {"done", "queued"}
                 => p \in (acked' \cup QueueIds(queue') \cup evicted')
        /\ \A id \in QueueIds(queue) \ QueueIds(queue') :
             id \in (acked' \cup evicted') ]_vars

C5_Witness ==
    \E p \in PayloadIds :
        /\ handlers[p].pc = "queued"
        /\ p \in acked
        /\ p \notin QueueIds(queue)
        /\ evicted # {}

\* C6: a payload whose enqueue() has returned is in the queue, also in the
\* queue loaded after a crash and restart, unless the endpoint has acknowledged
\* it or cleanup has evicted it.
C6_SurvivesRestart ==
    \A p \in PayloadIds :
        handlers[p].pc = "queued" => p \in (QueueIds(queue) \cup acked \cup evicted)

\* the timers that are inside the loop of a processQueue pass
InPass == {t \in TimerIds : timers[t].pc \in {"push", "save"}}

Last(seq) == seq[Len(seq)]

\* C7: the endpoint fails at most MaxFaults times, so from some point on it
\* acknowledges every push; with the interval firing fairly the queue is then
\* eventually empty and stays empty.
C7_EventuallyDrained ==
    <>[](Len(queue) = 0)

C7_Witness ==
    /\ Len(queue) = 0
    /\ faults = MaxFaults
    /\ \E p \in PayloadIds : handlers[p].pc = "queued" /\ p \in acked
    /\ ~lastPass.noop /\ lastPass.ret >= 1

\* C8: at most one pass is inside its loop at any time, and then the flag is
\* set; a processQueue call made while the flag is set or the queue is empty
\* starts no pass, calls pushFn zero times, changes no item and returns 0.
C8_SingleFlight ==
    /\ [](Cardinality(InPass) <= 1 /\ (InPass # {} => processing))
    /\ [][ \A t \in TimerIds \ InPass :
               (processing \/ Len(queue) = 0) => timers'[t].pc \notin {"push", "save"} ]_vars
    /\ [][ (lastPass' # lastPass /\ lastPass'.noop) =>
               /\ lastPass'.ret = 0
               /\ lastPass'.busy \/ Len(queue) = 0
               /\ UNCHANGED <<queue, processing, acked, faults, file>> ]_vars

C8_Witness ==
    /\ lastPass.noop /\ lastPass.busy
    /\ \E t \in TimerIds : timers[t].pc = "push" /\ timers[t].idx = 1
    /\ Len(queue) > 0

\* the step of pass t in which pushFn returned false or raised for its item:
\* the pass goes to markAttempt's save, or returns at once when markAttempt
\* does not find the item
FailsItem(t) ==
    /\ timers[t].pc = "push"
    /\ \/ timers'[t].pc = "save" /\ Last(timers'[t].outcomes) # "ok"
       \/ timers'[t].pc = "idle"

\* C9: a pass attempts the items of its snapshot in order, oldest first; at the
\* first item whose pushFn returns false or raises, that item's attempts grow
\* by exactly 1 and its error is set, every other item of the queue stays as it
\* is, and the pass calls pushFn on no later item.
C9_StopsAtFirstFailure ==
    /\ [](\A t \in InPass :
            /\ Len(timers[t].outcomes) = IF timers[t].pc = "push" THEN timers[t].idx - 1
                                          ELSE timers[t].idx
            /\ \A k \in 1..(Len(timers[t].outcomes) - 1) : timers[t].outcomes[k] = "ok")
    /\ [][ \A t \in TimerIds : FailsItem(t) =>
               LET id == timers[t].items[timers[t].idx].id IN
               /\ Len(queue') = Len(queue)
               /\ \A k \in DOMAIN queue :
                    IF queue[k].id = id
                    THEN /\ queue'[k].attempts = queue[k].attempts + 1
                         /\ queue'[k].error \in {"Push returned false", "raised"}
                         /\ queue'[k].id = id /\ queue'[k].payload = queue[k].payload
                         /\ queue'[k].createdAt = queue[k].createdAt
                    ELSE queue'[k] = queue[k] ]_vars
    /\ [][ \A t \in TimerIds :
               (timers[t].pc = "save" /\ Last(timers[t].outcomes) # "ok")
                   => timers'[t].pc \in {"save", "idle"} ]_vars

C9_Witness ==
    /\ ~lastPass.noop
    /\ Len(lastPass.ids) = 2
    /\ lastPass.outcomes \in {<<"false">>, <<"raise">>}
    /\ Len(queue) = 2
    /\ queue[1].id = lastPass.ids[1] /\ queue[1].attempts = 2
    /\ queue[2].id = lastPass.ids[2] /\ queue[2].attempts = 1
    /\ queue[2].error = "Initial push failed"

\* the items of the pass that returned last for which pushFn succeeded
Succeeded(pass) ==
    {pass.ids[k] : k \in {n \in DOMAIN pass.outcomes : pass.outcomes[n] = "ok"}}

\* C10: when a pass returns, its return value is the number of its items for
\* which pushFn succeeded; those items are out of the queue, and the other
\* items of its snapshot have not been removed (they are in the queue unless
\* cleanup evicted them).
C10_ReturnsSuccessCount ==
    [][ \A t \in InPass : timers'[t].pc = "idle" =>
           /\ ~lastPass'.noop
           /\ lastPass'.ret = Cardinality(Succeeded(lastPass'))
           /\ Succeeded(lastPass') \cap QueueIds(queue') = {}
           /\ (Range(lastPass'.ids) \ Succeeded(lastPass'))
                  \subseteq (QueueIds(queue') \cup evicted') ]_vars

C10_Witness ==
    /\ ~lastPass.noop
    /\ lastPass.ret = 1
    /\ lastPass.ids = <<1>>
    /\ handlers[1].pc = "queued"
    /\ queue = <<>>
    /\ evicted = {}

\* --------------------------------------------------------- claims: RetryQueue
\* C11: the queue never holds more than MAX_QUEUE_SIZE items; as long as no
\* item has expired the queue is the run of the newest items up to the one
\* enqueued last, and nothing is discarded while there is room: after
\* MAX_QUEUE_SIZE + k enqueues exactly the newest MAX_QUEUE_SIZE are left.
C11_KeepsNewest ==
    /\ Len(queue) <= MAX_QUEUE_SIZE
    /\ now = 0 =>
         /\ \A k \in DOMAIN queue : queue[k].id = enqueued - Len(queue) + k
         /\ (Len(queue) > 0 /\ Len(queue) < MAX_QUEUE_SIZE) => queue[1].id \in {0, 1}
         /\ (Len(file.items) = MAX_QUEUE_SIZE) => Len(queue) = MAX_QUEUE_SIZE

C11_Witness ==
    /\ now = 0
    /\ enqueued = MaxExtra
    /\ Len(queue) = MAX_QUEUE_SIZE
    /\ queue[1].id = enqueued - MAX_QUEUE_SIZE + 1
    /\ Cardinality(evicted) = MaxExtra

\* C12: in every reachable state no item of the queue is as old as the
\* maximum age, at the time the program read the clock last.
C12_NoExpiredItem ==
    \A k \in DOMAIN queue : now - queue[k].createdAt < MAX_ITEM_AGE_MS

\* the step is the construction of a new RetryQueue (time does not pass in it)
Constructed == lastOp' = "load" /\ now' = now

\* what cleanup has to leave of the items it is given at time t
Survivors(all, t) ==
    LET fresh == SelectSeq(all, LAMBDA item : t - item.createdAt < MAX_ITEM_AGE_MS) IN
    IF Len(fresh) <= MAX_QUEUE_SIZE THEN fresh
    ELSE [k \in 1..MAX_QUEUE_SIZE |-> fresh[Len(fresh) - MAX_QUEUE_SIZE + k]]

\* C13: right after the cleanup of a load or of an enqueue no item of the
\* queue is as old as the maximum age, and the queue is what the age filter
\* followed by the size trim leaves of the items loaded, or of the queue with
\* the new item: the newest at most MAX_QUEUE_SIZE fresh ones, in their order.
C13_CleanupResult ==
    /\ [][ (enqueued' = enqueued + 1 \/ Constructed) =>
               \A k \in DOMAIN queue' : now' - queue'[k].createdAt < MAX_ITEM_AGE_MS ]_vars
    /\ [][ enqueued' = enqueued + 1 =>
               queue' = Survivors(Append(queue, NewItem(enqueued', now, Undefined)), now) ]_vars
    /\ [][ (Constructed /\ file.state = "ok") =>
               queue' = Survivors([k \in DOMAIN file.items |-> Parse(file.items[k])], now) ]_vars

C13_Witness ==
    /\ lastOp = "load"
    /\ Len(queue) > 0
    /\ Len(file.items) > Len(queue)
    /\ \A k \in DOMAIN queue : now - queue[k].createdAt < MAX_ITEM_AGE_MS

\* C14: a new RetryQueue constructed from the file that holds the saved queue,
\* none of whose items has expired, has the same items in the same order, each
\* with the id, the attempts, the payload and the other fields it had.
C14_RoundTrip ==
    [][ (Constructed /\ file = Serialize(queue)
             /\ \A k \in DOMAIN queue : now - queue[k].createdAt < MAX_ITEM_AGE_MS)
           => queue' = queue ]_vars

C14_Witness ==
    /\ lastOp = "load"
    /\ file = Serialize(queue)
    /\ Len(queue) >= 2
    /\ queue[1].attempts > 1
    /\ queue[Len(queue)].error = Undefined

\* ------------------------------------------------------ claims: MandrelClient
\* the pushStats calls that have returned
Pushed == {c \in CallIds : calls[c].pc = "done" /\ calls[c].op = "push"}

\* the step in which a request of pushStats call c settles
SettlesPush(c) ==
    calls[c].pc = "fetch" /\ calls[c].op = "push" /\ calls'[c].pc # "fetch"

\* C15: a pushStats call that returned true got, as its last response, a 2xx
\* whose body has success = true; after any other last response (2xx with
\* success = false, 2xx without a JSON body, 4xx, 5xx, network error) it
\* returned false.
C15_TrueOnlyOnAck ==
    \A c \in Pushed : calls[c].result <=> calls[c].last = "ok"

C15_Witness ==
    /\ \E c \in Pushed : calls[c].result /\ calls[c].failures > 0
    /\ \E c \in Pushed : ~calls[c].result /\ calls[c].last = "nack"

\* C16: when a request of a push gets a 4xx response the call returns false in
\* that step and makes no further request (one request in all when the 4xx is
\* its first response), and the state is connected and the counter 0.
C16_ClientErrorNotRetried ==
    [][ \A c \in CallIds : (SettlesPush(c) /\ calls'[c].last = "c4xx") =>
           /\ calls'[c].pc = "done"
           /\ ~calls'[c].result
           /\ calls'[c].requests = calls[c].requests
           /\ calls[c].attempt = 0 => calls'[c].requests = 1
           /\ connectionState' = "connected"
           /\ consecutiveFailures' = 0 ]_vars

C16_Witness ==
    /\ \E c \in Pushed : calls[c].last = "c4xx" /\ calls[c].requests = 1
    /\ \E c \in Pushed : calls[c].last \in {"s5xx", "neterr"}
                            /\ calls[c].failures >= FailureThreshold
    /\ connectionState = "connected"
    /\ consecutiveFailures = 0

\* C17: a push retries after a 5xx or a network error as long as retries are
\* left; when after k such failures a 2xx with success = true arrives, the call
\* returns true having made k + 1 requests, the counter is 0 and the state
\* connected, and pushWithRetry does not enqueue the payload.
C17_RetriesThenSucceeds ==
    [][ \A c \in CallIds : SettlesPush(c) =>
           /\ (calls'[c].last \in {"s5xx", "neterr"} /\ calls[c].attempt < MaxRetries)
                  => calls'[c].pc = "sleep"
           /\ calls'[c].last = "ok" =>
                  /\ calls'[c].pc = "done"
                  /\ calls'[c].result
                  /\ calls'[c].failures <= MaxRetries
                  /\ calls'[c].requests = calls'[c].failures + 1
                  /\ consecutiveFailures' = 0
                  /\ connectionState' = "connected"
                  /\ ~QueueOnFailure(calls'[c].result) ]_vars

C17_Witness ==
    \E c \in Pushed :
        /\ calls[c].last = "ok"
        /\ calls[c].result
        /\ calls[c].failures = MaxRetries
        /\ calls[c].requests = MaxRetries + 1
        /\ consecutiveFailures = 0

\* C18: no call makes more than maxRetries + 1 requests; a push that ended on
\* a 5xx or a network error (so every request of it failed that way) made
\* exactly maxRetries + 1 requests and returned false.
C18_AttemptsBounded ==
    /\ \A c \in CallIds : calls[c].requests <= MaxRetries + 1
    /\ \A c \in Pushed : calls[c].last \in {"s5xx", "neterr"} =>
           /\ calls[c].requests = MaxRetries + 1
           /\ calls[c].failures = MaxRetries + 1
           /\ ~calls[c].result

C18_Witness ==
    \E c \in Pushed :
        /\ calls[c].last \in {"s5xx", "neterr"}
        /\ calls[c].requests = MaxRetries + 1
        /\ ~calls[c].result

\* C19: in fetchWithRetry every 5xx or network error increases the counter by
\* 1; when the counter is 3 or more after it the state is disconnected; every
\* 2xx or 4xx response sets the state to connected and the counter to 0.
C19_HealthTransitions ==
    [][ \A c \in CallIds : SettlesPush(c) =>
           /\ calls'[c].last \in {"s5xx", "neterr"} =>
                  /\ consecutiveFailures' = consecutiveFailures + 1
                  /\ consecutiveFailures' >= FailureThreshold
                         => connectionState' = "disconnected"
           /\ calls'[c].last \in {"ok", "nack", "badjson", "c4xx"} =>
                  /\ connectionState' = "connected"
                  /\ consecutiveFailures' = 0 ]_vars

\* C20: while a call is sleeping before a retry the state is connecting.
C20_ConnectingWhileBackoff ==
    \A c \in CallIds : calls[c].pc = "sleep" => connectionState = "connecting"

\* ------------------------------------------- claims: GitWatcher.stop, debounce
\* C26: once stop() has returned the debounce timer does not fire any more: no
\* handleGitChange run (extraction, then the commit callback) is started.
C26_NoFireAfterStop ==
    [][ (started /\ ~watching) => fires' = fires ]_vars

\* ------------------------------------------------ claims: processRetryQueue
\* C23: when the interval fires with a non-empty queue and the state is
\* disconnected, processRetryQueue makes a health check and nothing else; the
\* health check is one request, after which the counter is 0 (healthy) or one
\* higher (unhealthy); after an unhealthy one the invocation is over without
\* processQueue having been called: flag, queue, acknowledgements and the record
\* of the last pass are as before.
C23_UnhealthySkipsPass ==
    [][ \A t \in TimerIds :
          /\ (timers[t].pc = "idle" /\ timers'[t] # timers[t]
                 /\ connectionState = "disconnected") =>
                 /\ timers'[t].pc = "health"
                 /\ UNCHANGED <<processing, queue, acked, lastPass,
                                connectionState, consecutiveFailures>>
          /\ (timers[t].pc = "health" /\ timers'[t] # timers[t]) =>
                 /\ timers'[t].pc # "health"
                 /\ IF consecutiveFailures' = 0
                    THEN connectionState' = "connected"
                    ELSE /\ consecutiveFailures' = consecutiveFailures + 1
                         /\ timers'[t] = IdleTimer
                         /\ UNCHANGED <<processing, queue, acked, lastPass>> ]_vars

\* two invocations were skipped after an unhealthy check; nothing else has run
C23_Witness ==
    /\ \A t \in TimerIds : timers[t].pc = "idle"
    /\ \A p \in PayloadIds : handlers[p].pc = "idle"
    /\ QueueIds(queue) = {OldItem.id}
    /\ queue[1].attempts = OldItem.attempts
    /\ acked = {}
    /\ lastPass = NoPass
    /\ consecutiveFailures = 2
    /\ connectionState = "disconnected"

\* ------------------------------------------------- claims: RetryQueue.load
\* C28: constructing a RetryQueue never raises, whatever is at the path of the
\* queue file, and when the file is missing, blank, not JSON, not an array or
\* unreadable the queue is empty after the construction.
C28_LoadNeverFails ==
    /\ lastOp # "raised"
    /\ (lastOp = "load" /\ file.state # "ok") => queue = <<>>

C28_Witness ==
    /\ lastOp = "load"
    /\ file.state \in {"torn", "notarray", "unreadable"}
    /\ queue = <<>>
    /\ now > 0

\* --------------------------------------------- claims: repositories, isolation
\* C27: queued payloads of repository B are redelivered as if repository A had
\* no failure: a pass pushes every payload of B in its snapshot, unless the push
\* of a payload of B failed in it.
C27_OtherRepositoryRedelivered ==
    \A k \in DOMAIN lastPass.ids :
        Repository(lastPass.ids[k]) = "B" =>
            \/ k <= Len(lastPass.outcomes)
            \/ \E j \in DOMAIN lastPass.outcomes :
                   Repository(lastPass.ids[j]) = "B" /\ lastPass.outcomes[j] # "ok"

\* ---------------------------------------------------- claims: calculateDelay
\* the delay before retry n without jitter, as the specification gives it
JitterFree(n) ==
    Min(retryConfig.baseDelayMs * Pow(retryConfig.backoffMultiplier, n - 1),
        retryConfig.maxDelayMs)

\* C21: for the retries n = 1..maxRetries (multiplier at least 1) the delay
\* without jitter does not decrease with n; the delay used is at most
\* maxDelayMs, at least the delay without jitter and at most 30% above it, and
\* equal to it when the random number is 0.
C21_BackoffBounds ==
    \A n \in DOMAIN delays :
        /\ n > 1 => JitterFree(n) >= JitterFree(n - 1)
        /\ delays[n].delay <= retryConfig.maxDelayMs
        /\ delays[n].delay >= JitterFree(n)
        /\ 10 * delays[n].delay <= 13 * JitterFree(n)
        /\ delays[n].rnd = 0 => delays[n].delay = JitterFree(n)

\* a first delay with jitter below the cap, and a last delay cut to the cap
C21_Witness ==
    /\ Len(delays) = MaxRetries
    /\ delays[1].delay > JitterFree(1)
    /\ delays[1].delay < retryConfig.maxDelayMs
    /\ delays[MaxRetries].rnd > 0
    /\ delays[MaxRetries].delay = retryConfig.maxDelayMs
    /\ JitterFree(MaxRetries) > JitterFree(1)

\* ---------------------------------------------------------- claims: debounce
\* the calls of the wrapped function made with the arguments of trigger i
FiredFor(i) == {n \in DOMAIN fired : fired[n].args = i}

\* trigger i is the last of its burst: no trigger has followed it, and none is
\* pending (Settled), or the next one came more than the delay after it
Settled(i) == i = Len(triggers) /\ ~debounceTimer.armed

Followed(i) == i < Len(triggers) /\ triggers[i + 1].at > triggers[i].at + DebounceMs

\* C24: the wrapped function is called with the arguments of a trigger only the
\* delay after that trigger, and only when no other trigger came in between;
\* so of triggers each less than the delay after the one before, only the last
\* has its arguments delivered, and it has them delivered exactly once, the
\* delay after it was made.
C24_TrailingEdge ==
    /\ \A n \in DOMAIN fired :
          LET i == fired[n].args IN
          /\ fired[n].at = triggers[i].at + DebounceMs
          /\ i < Len(triggers) => triggers[i + 1].at >= fired[n].at
    /\ \A i \in DOMAIN triggers :
          /\ Cardinality(FiredFor(i)) <= 1
          /\ (Settled(i) \/ Followed(i)) => Cardinality(FiredFor(i)) = 1

\* MaxTriggers triggers, each half the delay after the one before: one call
C24_Witness ==
    /\ Len(triggers) = MaxTriggers
    /\ \A i \in 2..MaxTriggers : triggers[i].at = triggers[i - 1].at + DebounceMs \div 2
    /\ Len(fired) = 1
    /\ fired[1].args = MaxTriggers
    /\ fired[1].at = triggers[MaxTriggers].at + DebounceMs

\* ------------------------------------------------- claims: debounceWithDedup
\* the step is a call of the debounced function
Triggered == Len(triggers') = Len(triggers) + 1

\* the step is a call of the debounced function with the key of the call before
Repeated ==
    /\ Triggered
    /\ Len(triggers) >= 1
    /\ triggers'[Len(triggers')].key = triggers[Len(triggers)].key

\* triggers i and i + 1 have the same key, and trigger i was not dropped
Pair(i) ==
    /\ i + 1 \in DOMAIN triggers
    /\ triggers[i + 1].key = triggers[i].key
    /\ ~triggers[i].dropped

\* C25 as stated: a trigger with the key of the trigger before it never
\* touches the timer, whether the one before has fired or is still pending.
C25_SecondNeverTouchesTimer ==
    [][ Repeated => debounceTimer' = debounceTimer ]_vars

\* C25, amended: of two consecutive triggers with the same key, the first of
\* which was not dropped itself, at most one is delivered, and exactly one once
\* nothing is pending; when the first has fired the second is dropped without
\* touching the timer; when the first is still pending the second replaces its
\* timer, and it is the second that is delivered, the delay after it was made.
C25_OneFirePerPair ==
    /\ [](\A i \in DOMAIN triggers : Pair(i) =>
             /\ Cardinality(FiredFor(i) \cup FiredFor(i + 1)) <= 1
             /\ Settled(i + 1) => Cardinality(FiredFor(i) \cup FiredFor(i + 1)) = 1)
    /\ [][ (Repeated /\ ~triggers[Len(triggers)].dropped) =>
             LET i == Len(triggers) IN
             IF FiredFor(i) # {}
             THEN /\ triggers'[i + 1].dropped
                  /\ UNCHANGED <<debounceTimer, lastKey, fired>>
             ELSE /\ ~triggers'[i + 1].dropped
                  /\ debounceTimer.armed /\ debounceTimer.args = i
                  /\ debounceTimer' = [armed |-> TRUE, args |-> i + 1,
                                        key |-> triggers[i].key,
                                        due |-> clock + DebounceMs]
                  /\ UNCHANGED <<lastKey, fired>> ]_vars

\* the second came while the first was pending and is the one delivered; a
\* third with the same key came after the fire and was dropped
C25_Witness ==
    /\ Len(triggers) >= 3
    /\ Pair(1) /\ ~triggers[2].dropped
    /\ triggers[2].at < triggers[1].at + DebounceMs
    /\ FiredFor(1) = {} /\ FiredFor(2) # {}
    /\ triggers[3].key = triggers[2].key /\ triggers[3].dropped
    /\ ~debounceTimer.armed

\* the key of the invocation fired last
LastFiredKey == IF fired = <<>> THEN NoKey ELSE fired[Len(fired)].key

\* C30: a trigger whose key is the key of the invocation fired last has no
\* effect: the timer, pending or not, the recorded key and the calls made are
\* as before; every trigger with another key is taken; the recorded key is
\* always the key fired last, so it changes only when another key fires.
C30_DroppedWithoutEffect ==
    /\ [](lastKey = LastFiredKey)
    /\ [][ Triggered =>
             LET new == triggers'[Len(triggers')] IN
             IF new.key = LastFiredKey
             THEN new.dropped /\ UNCHANGED <<debounceTimer, lastKey, fired>>
             ELSE /\ ~new.dropped
                  /\ debounceTimer'.armed
                  /\ debounceTimer'.args = Len(triggers') ]_vars

\* a trigger was dropped while the timer of an earlier trigger with another
\* key is pending
C30_Witness ==
    /\ debounceTimer.armed
    /\ \E i \in DOMAIN triggers :
          /\ triggers[i].dropped
          /\ debounceTimer.args < i
          /\ debounceTimer.key # triggers[i].key
          /\ triggers[i].key = lastKey

\* ------------------------------------------------- claims: getActiveSession
\* the step in which a request of getActiveSession call c settles
SettlesSession(c) ==
    calls[c].pc = "fetch" /\ calls[c].op = "session" /\ calls'[c].pc # "fetch"

\* C22: when a request of getActiveSession gets a 404 (a 4xx) the call returns
\* no session in that step and makes no further request (one request in all
\* when the 404 answers its first request); no failure is counted: the counter
\* is 0 and the state connected afterwards.
C22_NotFoundIsNoSession ==
    [][ \A c \in CallIds : (SettlesSession(c) /\ calls'[c].last = "c4xx") =>
           /\ calls'[c].pc = "done"
           /\ ~calls'[c].result
           /\ calls'[c].requests = calls[c].requests
           /\ calls'[c].failures = calls[c].failures
           /\ calls[c].attempt = 0 => calls'[c].requests = 1
           /\ connectionState' = "connected"
           /\ consecutiveFailures' = 0 ]_vars

\* a lookup that ended on its first request with a 404, after another lookup
\* had used up its retries
C22_Witness ==
    /\ \E c \in CallIds :
          /\ calls[c].pc = "done" /\ calls[c].op = "session"
          /\ calls[c].last = "c4xx" /\ calls[c].requests = 1
          /\ calls[c].failures = 0 /\ ~calls[c].result
    /\ \E c \in CallIds :
          /\ calls[c].pc = "done" /\ calls[c].op = "session"
          /\ calls[c].failures = MaxRetries + 1
    /\ connectionState = "connected"
    /\ consecutiveFailures = 0

\* --------------------------------------------- claims: client calls return
\* C29: every call of a client operation that has been started returns, also
\* when the endpoint never answers a request.
C29_EveryCallReturns ==
    \A c \in CallIds : (calls[c].pc \in {"fetch", "sleep"}) ~> (calls[c].pc = "done")

\* --------------------------------------------- claims: the connection state
\* C35: whenever the connection state is connected the consecutive-failure
\* counter is below 3; a counter of 3 or more goes with disconnected or
\* connecting.
C35_ConnectedBelowThreshold ==
    /\ connectionState = "connected" => consecutiveFailures < FailureThreshold
    /\ consecutiveFailures >= FailureThreshold
           => connectionState \in {"disconnected", "connecting"}

\* connected with the counter one below the threshold, after failed requests
C35_Witness ==
    /\ connectionState = "connected"
    /\ consecutiveFailures = FailureThreshold - 1
    /\ \E c \in CallIds : calls[c].pc = "done" /\ calls[c].failures > 0

\* the calls of fetchWithRetry that have not returned
FetchInProgress ==
    {c \in CallIds : calls[c].op = "push" /\ calls[c].pc \in {"fetch", "sleep"}}

\* C36: whenever no fetchWithRetry call is in progress the connection state is
\* connected or disconnected, never connecting.
C36_ConnectingOnlyTransient ==
    FetchInProgress = {} => connectionState \in {"connected", "disconnected"}

\* ------------------------------------------ claims: the single-flight flag
\* C39: the step in which a pass ends (all items delivered, pushFn returned
\* false, pushFn raised) leaves the flag false; the flag is set only while a
\* pass is inside its loop, so a processQueue call made on a non-empty queue
\* when no pass is running is never a no-op.
C39_FlagReleased ==
    /\ [](processing => InPass # {})
    /\ [][ \A t \in InPass : timers'[t].pc = "idle" => ~processing' ]_vars
    /\ [][ (InPass = {} /\ Len(queue) > 0)
               => ~(lastPass' # lastPass /\ lastPass'.noop) ]_vars

\* a pass is running after an earlier pass ended by a pushFn that raised
C39_Witness ==
    /\ ~lastPass.noop
    /\ lastPass.outcomes # <<>> /\ Last(lastPass.outcomes) = "raise"
    /\ InPass # {}

\* ------------------------------------- claims: enqueue during a running pass
\* C40: an item enqueued while a pass is suspended in pushFn is not among the
\* items the pass attempts, and the pass does not lose it: it stays in the queue
\* in memory until the pass has ended (unless cleanup evicts it), every file
\* image the pass saves after the enqueue contains it, and no step of the pass
\* leaves the file without it unless the step leaves the file as it was.
C40_LateItemKept ==
    /\ [](\A t \in InPass : \A p \in timers[t].late :
             /\ p \notin QueueIds(timers[t].items)
             /\ p \in QueueIds(queue) \cup evicted
             /\ timers[t].pc = "save"
                    => p \in QueueIds(timers[t].snap.items) \cup evicted)
    /\ [][ \A t \in InPass : timers'[t] # timers[t] =>
               \A p \in timers[t].late :
                   /\ p \in QueueIds(queue') \cup evicted'
                   /\ \/ file' = file
                      \/ p \in QueueIds(file'.items) \cup evicted'
                   /\ timers'[t].pc = "idle" => p \notin Range(lastPass'.ids) ]_vars

\* a pass that delivered its item has ended; the item enqueued during its
\* pushFn is the queue, in memory and in the file
C40_Witness ==
    /\ InPass = {}
    /\ ~lastPass.noop /\ lastPass.outcomes = <<"ok">>
    /\ \E p \in PayloadIds :
          /\ handlers[p].pc = "queued"
          /\ p \notin Range(lastPass.ids)
          /\ QueueIds(queue) = {p}
          /\ QueueIds(file.items) = {p}
          /\ queue[1].attempts = 1

\* ------------------------------------------- claims: a head item that fails
\* C33: a pass begins at the oldest item of the queue and goes to a later item
\* of its snapshot only after every earlier one was acknowledged; so an oldest
\* item whose push fails each time is the only item a pass attempts, and as
\* long as it stays in the queue no item behind it is delivered: an item of the
\* queue is acknowledged only while it is the head of the queue.
C33_HeadOfLineBlocks ==
    /\ [](\A t \in InPass : \A j \in 1..(timers[t].idx - 1) :
             /\ timers[t].items[j].payload \in acked
             /\ timers[t].items[j].id \notin QueueIds(queue))
    /\ [][ \A t \in TimerIds \ InPass : timers'[t].pc = "push" =>
               /\ timers'[t].idx = 1
               /\ timers'[t].items[1].id = queue[1].id ]_vars
    /\ [][ \A k \in DOMAIN queue :
               queue[k].payload \in (acked' \ acked) => k = 1 ]_vars

\* the head item failed in the pass before, the item behind it was not
\* attempted, and the next pass is again pushing the head item
C33_Witness ==
    /\ ~lastPass.noop /\ lastPass.outcomes = <<"false">>
    /\ Len(queue) = 2
    /\ queue[1].attempts = 2 /\ queue[2].attempts = 1
    /\ queue[2].payload \notin acked
    /\ \E t \in InPass :
          /\ timers[t].pc = "push" /\ timers[t].idx = 1
          /\ timers[t].items[1].id = queue[1].id
          /\ Len(timers[t].items) = 2

\* ------------------------------------------------- claims: the attempts count
\* the index of the item with this id in a queue
IndexOf(q, id) == CHOOSE k \in DOMAIN q : q[k].id = id

\* C32: every item of the queue has attempts >= 1: an item enters the queue
\* with attempts = 1, the step in which a pass's pushFn fails for an item
\* raises that item's attempts by exactly 1, and in every other step the
\* attempts of an item that stays in the queue stay as they are.
C32_AttemptsCount ==
    /\ [](\A k \in DOMAIN queue : queue[k].attempts >= 1)
    /\ [][ \A id \in QueueIds(queue') :
               LET after == queue'[IndexOf(queue', id)].attempts IN
               IF id \notin QueueIds(queue) THEN after = 1
               ELSE LET before == queue[IndexOf(queue, id)].attempts IN
                    IF \E t \in TimerIds :
                          FailsItem(t) /\ timers[t].items[timers[t].idx].id = id
                    THEN after = before + 1
                    ELSE after = before ]_vars

\* an item that was enqueued once and then failed in two passes
C32_Witness ==
    /\ Len(queue) = 1
    /\ queue[1].attempts = 3
    /\ ~lastPass.noop /\ lastPass.ids = <<queue[1].id>>

\* ------------------------------------------------ claims: order of delivery
\* the ways the payloads (the one an earlier run left, and the batches handed
\* to handleCommits, numbered in the order of their extraction) may belong to
\* two repositories: handleCommits and the queue are the same for all of them
Labelings == [0..MaxPayloads -> {"A", "B"}]

\* C38: whatever repositories the payloads are of, a payload is acknowledged
\* by the endpoint only when no payload of the same repository that was
\* extracted before it is waiting in the queue.
C38_AckedInExtractionOrder ==
    [][ \A lab \in Labelings : \A later \in acked' \ acked :
           \A k \in DOMAIN queue :
               (queue[k].payload < later) => lab[queue[k].payload] # lab[later] ]_vars

\* ------------------------------------------- claims: overlapping extractions
\* the commits handed to the callback so far
Reported == UNION {Range(delivered[k]) : k \in Batches}

\* C37: when handleGitChange runs have overlapped, no commit is in two of the
\* batches handed to the callback, and once the runs have ended the baseline
\* is the newest commit reported.
C37_OverlapReportsOnce ==
    overlap =>
        /\ NoDuplicates
        /\ (AllIdle /\ Reported # {}) =>
               \A c \in Reported : c <= lastCommitSha /\ lastCommitSha \in Reported

\* ------------------------------------------------ claims: a failing diff
\* C34: a commit whose diff fails is handed over with an empty file list and
\* every other commit of the batch with its own files: each extracted commit is
\* appended to the batch, whether or not its diff failed, in the place the log
\* gave it, and the file lists handed over are in the order of their commits.
C34_DiffFailureIsLocal ==
    /\ [](\A k \in Batches :
             /\ Len(deliveredFiles[k]) = Len(delivered[k])
             /\ \A n \in DOMAIN delivered[k] :
                    deliveredFiles[k][n] = IF DiffSummary(delivered[k][n]).threw THEN <<>>
                                           ELSE DiffSummary(delivered[k][n]).files)
    /\ [][ \A r \in RunIds : (runs[r].pc = "files" /\ runs'[r] # runs[r]) =>
               LET all == Append(runs[r].commits, runs[r].logAll[runs[r].i]) IN
               \/ runs'[r].pc = "files" /\ runs'[r].commits = all
               \/ /\ runs'[r].pc = "idle"
                  /\ delivered' = Append(delivered, Reverse(all)) ]_vars

\* a batch with a commit whose diff failed between two commits that have files
C34_Witness ==
    \E k \in Batches : \E n \in 2..(Len(delivered[k]) - 1) :
        /\ DiffSummary(delivered[k][n]).threw
        /\ deliveredFiles[k][n] = <<>>
        /\ deliveredFiles[k][n - 1] # <<>>
        /\ deliveredFiles[k][n + 1] # <<>>

\* ------------------------------------------------------ RetryQueue: the ids
\* "Math.random().toString(36).substring(2, 9)": two of the possible suffixes
Suffixes == {"a", "b"}

\* generateId: the clock in milliseconds, "-", the random suffix
GenerateId(t, rnd) == <<t, rnd>>

\* enqueue(payload), awaited, with the id generateId gives
IdEnqueue(rnd) ==
    LET item == [NewItem(enqueued + 1, now, Undefined) EXCEPT !.id = GenerateId(now, rnd)]
        q2 == Cleanup(Append(queue, item), now)
    IN
    /\ enqueued < MaxExtra
    /\ enqueued' = enqueued + 1
    /\ queue' = q2
    /\ evicted' = evicted \cup ((QueueIds(queue) \cup {item.id}) \ QueueIds(q2))
    /\ file' = Serialize(q2)
    /\ lastOp' = "enqueue"
    /\ UNCHANGED <<processing, connectionState, consecutiveFailures, handlers, timers,
                   now, faults, acked, lastPass, crashes>>
    /\ UNCHANGED <<wvars, cvars, uvars>>

\* markAttempt(id, error) with the id of the k-th item, awaited
IdMarkAttempt(k) ==
    /\ k \in DOMAIN queue
    /\ faults < MaxFaults
    /\ faults' = faults + 1
    /\ queue' = MarkAttempt(queue, queue[k].id, now, "Push returned false")
    /\ file' = Serialize(queue')
    /\ lastOp' = "markAttempt"
    /\ UNCHANGED <<processing, connectionState, consecutiveFailures, handlers, timers,
                   now, acked, evicted, lastPass, crashes, enqueued>>
    /\ UNCHANGED <<wvars, cvars, uvars>>

\* remove(id) with the id of the k-th item, awaited
IdRemove(k) ==
    /\ k \in DOMAIN queue
    /\ queue' = Remove(queue, queue[k].id)
    /\ file' = Serialize(queue')
    /\ lastOp' = "remove"
    /\ UNCHANGED <<processing, connectionState, consecutiveFailures, handlers, timers,
                   now, faults, acked, evicted, lastPass, crashes, enqueued>>
    /\ UNCHANGED <<wvars, cvars, uvars>>

QueueSlots == 1..MAX_QUEUE_SIZE

NextIds ==
    \/ \E rnd \in Suffixes : IdEnqueue(rnd)
    \/ \E k \in QueueSlots : IdMarkAttempt(k)
    \/ \E k \in QueueSlots : IdRemove(k)
    \/ QTick

\* a RetryQueue on its own that starts without a file
InitIds == InitQ /\ file = NoFile

SpecIds == InitIds /\ [][NextIds]_vars

\* C31: in every state the ids of the queue's items differ from each other and
\* the items stand in the order of their creation, oldest first; remove(id)
\* takes exactly one item out of the queue and markAttempt(id) changes exactly
\* one item.
C31_UniqueIdsInOrder ==
    /\ [](\A j, k \in DOMAIN queue :
             j < k => (queue[j].id # queue[k].id /\ queue[j].payload < queue[k].payload))
    /\ [][ lastOp' = "remove" /\ queue' # queue => Len(queue') = Len(queue) - 1 ]_vars
    /\ [][ lastOp' = "markAttempt" /\ queue' # queue =>
               Cardinality({k \in DOMAIN queue : queue'[k] # queue[k]}) = 1 ]_vars
====
